---- MODULE Spec2Model ----
(***************************************************************************)
(* Workout tracker API (FastAPI + SQLAlchemy on SQLite): JWT               *)
(* authentication (routers/auth.py, deps.py) and ownership-scoped CRUD     *)
(* over workouts and routines (routers/workouts.py, routers/routines.py,   *)
(* models.py).                                                             *)
(*                                                                         *)
(* Eight specifications share the variables:                               *)
(*   SpecAuth     registration, the two logins, the clock and the gate;    *)
(*   Spec         the protected CRUD handlers, one request at a time,      *)
(*                started from a store with two users and their tokens;    *)
(*   SpecGate     the protected handlers called with bad bearers;          *)
(*   SpecConc     register requests interleaved at their database steps;   *)
(*   SpecSession  the store session of each request, from get_db's yield   *)
(*                to its finally clause (with fairness);                   *)
(*   SpecRace     create_routine and delete_workout requests interleaved   *)
(*                at their database steps;                                 *)
(*   SpecJourney  one client from registration to reading its workout;     *)
(*   SpecLogin    one pair of credentials sent to both login endpoints.    *)
(***************************************************************************)
EXTENDS Integers, Sequences, FiniteSets, TLC

VARIABLES
    environ,          \* process environment read by os.getenv at import
    clock,            \* datetime.now(timezone.utc), in minutes
    users,            \* table users
    workouts,         \* table workouts
    routines,         \* table routines
    workout_routine,  \* association table workout_routine
    issued,           \* tokens handed out by successful logins
    resp,             \* the response to the last request
    reqs              \* in-flight requests (SpecConc, SpecSession, SpecRace);
                      \* the client's credentials and first answer (SpecLogin)

vars == <<environ, clock, users, workouts, routines, workout_routine,
          issued, resp, reqs>>

store == <<users, workouts, routines, workout_routine>>

----------------------------------------------------------------------------
(* Bounds of the model *)

MaxTokens == 2
MaxClock == 30
MaxWorkouts == 2
MaxRoutines == 2
\* rows the workouts and routines tables hold together
MaxRows == 3

(* Inputs *)

Usernames == {"alice", "bob"}
Passwords == {"pw123", "hunter2"}
Salts == {"salt-a", "salt-b"}
TickSteps == {10}
WorkoutNames == {"Push-ups"}
RoutineNames == {"AM"}
None == "None"

----------------------------------------------------------------------------
(* Configuration: routers/auth.py and deps.py each read the environment *)

os_getenv(name, default) ==
    IF name \in DOMAIN environ THEN environ[name] ELSE default

SECRET_KEY_auth ==
    os_getenv("AUTH_SECRET_KEY", "fallback-secret-key-change-in-production")

SECRET_KEY_deps ==
    os_getenv("AUTH_SECRET_KEY", "fallback-secret-key-change-this-in-production")

TOKEN_MINUTES == 20

----------------------------------------------------------------------------
(* Password hashing: a salted one-way hash; verify recomputes with the     *)
(* salt kept in the stored hash.                                           *)

bcrypt_hash(password, salt) == [scheme |-> "bcrypt", salt |-> salt, digest |-> <<salt, password>>]

bcrypt_verify(password, hashed) == hashed = bcrypt_hash(password, hashed.salt)

----------------------------------------------------------------------------
(* Tokens: the claims and an HMAC over them under the signing key *)

HS256(key, claims) == <<key, claims>>

jwt_encode(claims, key) == [kind |-> "jwt", claims |-> claims, sig |-> HS256(key, claims)]

NoBearer == [kind |-> "none"]
MalformedBearer == [kind |-> "malformed"]

\* jwt.decode with the expiry check left out
jwt_decode_no_exp(token, key, now) ==
    IF token.kind # "jwt" THEN [error |-> TRUE]
    ELSE IF token.sig # HS256(key, token.claims) THEN [error |-> TRUE]
    ELSE [error |-> FALSE, payload |-> token.claims]

\* jwt.decode: "error" stands for JWTError (bad form, bad signature, expired)
jwt_decode(token, key, now) ==
    IF token.kind # "jwt" THEN [error |-> TRUE]
    ELSE IF token.sig # HS256(key, token.claims) THEN [error |-> TRUE]
    ELSE IF "exp" \in DOMAIN token.claims /\ token.claims["exp"] < now THEN [error |-> TRUE]
    ELSE [error |-> FALSE, payload |-> token.claims]

create_access_token(username, user_id, expires_delta) ==
    jwt_encode([sub |-> username, id |-> user_id, exp |-> clock + expires_delta],
               SECRET_KEY_auth)

Unauthorized(detail, headers) ==
    [status |-> 401, detail |-> detail, headers |-> headers]

\* the dict get_current_user returns
Identity(user) == [username |-> user.username, id |-> user.id]

\* get_current_user without the check that both claims are present
get_current_user_unchecked(bearer) ==
    IF bearer.kind = "none"
    THEN [status |-> 401, detail |-> "Not authenticated", headers |-> {"WWW-Authenticate: Bearer"}]
    ELSE LET d == jwt_decode(bearer, os_getenv("AUTH_SECRET_KEY",
                                "fallback-secret-key-change-this-in-production"), clock) IN
         IF d.error
         THEN [status |-> 401, detail |-> "Could not validate user credentials", headers |-> {}]
         ELSE [status |-> 200,
               username |-> IF "sub" \in DOMAIN d.payload THEN d.payload["sub"] ELSE "None",
               id |-> IF "id" \in DOMAIN d.payload THEN d.payload["id"] ELSE 0]

\* oauth2_bearer then get_current_user: the caller's identity or a 401
get_current_user(bearer) ==
    IF bearer.kind = "none"
    THEN Unauthorized("Not authenticated", {"WWW-Authenticate: Bearer"})
    ELSE LET d == jwt_decode(bearer, SECRET_KEY_deps, clock) IN
         IF d.error
         THEN Unauthorized("Could not validate user credentials", {})
         ELSE IF "sub" \notin DOMAIN d.payload \/ "id" \notin DOMAIN d.payload
         THEN Unauthorized("Could not validate user credentials", {})
         ELSE [status |-> 200, username |-> d.payload["sub"], id |-> d.payload["id"]]

----------------------------------------------------------------------------
(* Rows and generated keys.  SQLite gives an INTEGER PRIMARY KEY column   *)
(* the largest existing rowid plus one.                                    *)

Ids(rows) == {r.id : r \in rows}

MaxId(rows) == CHOOSE i \in Ids(rows) : \A j \in Ids(rows) : j <= i

NextId(rows) == IF rows = {} THEN 1 ELSE MaxId(rows) + 1

\* the lookup finding nobody
nobody_by_username(username) == {}

\* db.query(User).filter(User.username == username).first()
user_by_username(username) == {u \in users : u.username = username}

----------------------------------------------------------------------------
(* Responses.  Every request leaves one; op names the endpoint.            *)

NoResp == [op |-> "none"]

NoArgs == [none |-> TRUE]

\* who the gate let in, for a request that has not passed it
Anonymous == [anonymous |-> TRUE]

HTTPException(op, bearer, user, args, status, detail, headers) ==
    [op |-> op, bearer |-> bearer, user |-> user, args |-> args, status |-> status,
     detail |-> detail, headers |-> headers]

\* what the client sees of an error response
Visible(r) == [status |-> r.status, detail |-> r.detail, headers |-> r.headers]

Response(op, bearer, user, status, args, body) ==
    [op |-> op, bearer |-> bearer, user |-> user, status |-> status, args |-> args,
     body |-> body]

----------------------------------------------------------------------------
(* routers/auth.py *)

\* authenticate_user: the user row, or False
authenticate_user(username, password) ==
    LET found == user_by_username(username) IN
    IF found = {} THEN {}
    ELSE {u \in found : bcrypt_verify(password, u.hashed_password)}

\* the 400 raised when the existence check finds a row
UsernameTaken(username) ==
    HTTPException("register", NoBearer, Anonymous, [username |-> username], 400,
                  "Username already registered", {})

\* the User row built by the handler; the store generates its id on insert
NewUser(username, password, salt) ==
    [id |-> NextId(users), username |-> username,
     hashed_password |-> bcrypt_hash(password, salt)]

\* UserResponse: the public identity, never the hash
UserResponse(row) == [id |-> row.id, username |-> row.username]

\* POST /auth/register, run without interruption
create_user(username, password, salt) ==
    /\ IF user_by_username(username) # {}
       THEN /\ resp' = UsernameTaken(username)
            /\ users' = users
       ELSE LET row == NewUser(username, password, salt) IN
            /\ users' = users \cup {row}
            /\ resp' = Response("register", NoBearer, Anonymous, 201,
                                [username |-> username], UserResponse(row))
    /\ UNCHANGED <<environ, clock, workouts, routines, workout_routine, issued, reqs>>

\* a login that tells an unknown user from a wrong password
Login_leaky(op, headers, username, password) ==
    LET user == authenticate_user(username, password) IN
    /\ IF user = {}
       THEN /\ resp' = IF user_by_username(username) = {}
                       THEN HTTPException(op, NoBearer, Anonymous, [username |-> username],
                                          404, "User not found", headers)
                       ELSE HTTPException(op, NoBearer, Anonymous, [username |-> username],
                                          401, "Incorrect password", headers)
            /\ issued' = issued
       ELSE \E u \in user :
            LET token == create_access_token(u.username, u.id, TOKEN_MINUTES) IN
            /\ Cardinality(issued \cup {token}) <= MaxTokens
            /\ issued' = issued \cup {token}
            /\ resp' = Response(op, NoBearer, Anonymous, 200, [username |-> username],
                                [access_token |-> token, token_type |-> "bearer"])
    /\ UNCHANGED <<environ, clock, users, workouts, routines, workout_routine, reqs>>

\* the flow both login endpoints share; each raises its own 401
Login(op, headers, username, password) ==
    LET user == authenticate_user(username, password) IN
    /\ IF user = {}
       THEN /\ resp' = HTTPException(op, NoBearer, Anonymous, [username |-> username], 401,
                                     "Incorrect username or password", headers)
            /\ issued' = issued
       ELSE \E u \in user :
            LET token == create_access_token(u.username, u.id, TOKEN_MINUTES) IN
            /\ Cardinality(issued \cup {token}) <= MaxTokens
            /\ issued' = issued \cup {token}
            /\ resp' = Response(op, NoBearer, Anonymous, 200, [username |-> username],
                                [access_token |-> token, token_type |-> "bearer"])
    /\ UNCHANGED <<environ, clock, users, workouts, routines, workout_routine, reqs>>

\* POST /auth/token
login_for_access_token(username, password) ==
    Login("token", {"WWW-Authenticate: Bearer"}, username, password)

\* POST /auth/login
login_with_json(username, password) ==
    Login("login", {}, username, password)

----------------------------------------------------------------------------
(* The authentication gate in front of every protected handler: a failed  *)
(* dependency answers the request and the handler body never runs.         *)

Rejected(op, bearer, user) ==
    /\ resp' = HTTPException(op, bearer, Anonymous, NoArgs, 401, user.detail, user.headers)
    /\ UNCHANGED <<environ, clock, users, workouts, routines, workout_routine,
                   issued, reqs>>

----------------------------------------------------------------------------
(* routers/workouts.py *)

\* get_workout with the owner filter of the other handlers
get_workout_owned(bearer, workout_id) ==
    LET user == get_current_user(bearer) IN
    IF user.status = 401 THEN Rejected("get_workout", bearer, user)
    ELSE LET workout == {w \in workouts : w.id = workout_id /\ w.user_id = user.id} IN
         /\ resp' = IF workout = {}
                    THEN HTTPException("get_workout", bearer, Identity(user), [id |-> workout_id],
                                       404, "Workout not found", {})
                    ELSE Response("get_workout", bearer, Identity(user), 200, [id |-> workout_id],
                                  CHOOSE w \in workout : TRUE)
         /\ UNCHANGED <<environ, clock, users, workouts, routines, workout_routine,
                        issued, reqs>>

\* GET /workouts/?workout_id=
get_workout(bearer, workout_id) ==
    LET user == get_current_user(bearer) IN
    IF user.status = 401 THEN Rejected("get_workout", bearer, user)
    ELSE LET workout == {w \in workouts : w.id = workout_id} IN
         /\ resp' = IF workout = {}
                    THEN HTTPException("get_workout", bearer, Identity(user), [id |-> workout_id],
                                       404, "Workout not found", {})
                    ELSE Response("get_workout", bearer, Identity(user), 200, [id |-> workout_id],
                                  CHOOSE w \in workout : TRUE)
         /\ UNCHANGED <<environ, clock, users, workouts, routines, workout_routine,
                        issued, reqs>>

\* the query without its filter
every_workout(user_id) == workouts

\* db.query(Workout).filter(Workout.user_id == user['id']).all()
workouts_of(user_id) == {w \in workouts : w.user_id = user_id}

\* GET /workouts/all
get_workouts(bearer) ==
    LET user == get_current_user(bearer) IN
    IF user.status = 401 THEN Rejected("get_workouts", bearer, user)
    ELSE /\ resp' = Response("get_workouts", bearer, Identity(user), 200, NoArgs, workouts_of(user.id))
         /\ UNCHANGED <<environ, clock, users, workouts, routines, workout_routine,
                        issued, reqs>>

\* POST /workouts/
create_workout(bearer, name, description) ==
    LET user == get_current_user(bearer) IN
    IF user.status = 401 THEN Rejected("create_workout", bearer, user)
    ELSE LET db_workout == [id |-> NextId(workouts), user_id |-> user.id,
                            name |-> name, description |-> description] IN
         /\ db_workout.id <= MaxWorkouts
         /\ Cardinality(workouts) + Cardinality(routines) < MaxRows
         /\ workouts' = workouts \cup {db_workout}
         /\ resp' = Response("create_workout", bearer, Identity(user), 201, [name |-> name], db_workout)
         /\ UNCHANGED <<environ, clock, users, routines, workout_routine, issued, reqs>>

\* the lookup without the owner filter
any_workout(workout_id, user_id) == {w \in workouts : w.id = workout_id}

\* db.query(Workout).filter(Workout.id == id, Workout.user_id == user_id).first()
owned_workout(workout_id, user_id) ==
    {w \in workouts : w.id = workout_id /\ w.user_id = user_id}

\* a delete that leaves the association table alone
no_secondary_rows(workout_id) == {}

\* Workout.routines (secondary=workout_routine): deleting a Workout deletes
\* its rows of the association table in the same flush
secondary_rows_of_workout(workout_id) ==
    {m \in workout_routine : m.workout_id = workout_id}

\* DELETE /workouts/?workout_id=
delete_workout(bearer, workout_id) ==
    LET user == get_current_user(bearer) IN
    IF user.status = 401 THEN Rejected("delete_workout", bearer, user)
    ELSE LET db_workout == owned_workout(workout_id, user.id) IN
         IF db_workout = {}
         THEN /\ resp' = HTTPException("delete_workout", bearer, Identity(user), [id |-> workout_id], 404,
                           "Workout not found or you don't have permission to delete it", {})
              /\ UNCHANGED <<environ, clock, users, workouts, routines, workout_routine,
                             issued, reqs>>
         ELSE /\ workouts' = workouts \ db_workout
              /\ workout_routine' = workout_routine \ secondary_rows_of_workout(workout_id)
              /\ resp' = Response("delete_workout", bearer, Identity(user), 200,
                                  [id |-> workout_id,
                                   unlinked |-> {m.routine_id :
                                                   m \in secondary_rows_of_workout(workout_id)}],
                                  [message |-> "Workout deleted successfully"])
              /\ UNCHANGED <<environ, clock, users, routines, issued, reqs>>

----------------------------------------------------------------------------
(* routers/routines.py *)

WorkoutSummary(w) == [id |-> w.id, name |-> w.name, description |-> w.description]

\* joinedload(Routine.workouts): the workouts joined through the association table
loaded_workouts(routine_id, assoc, workout_rows) ==
    {w \in workout_rows : [workout_id |-> w.id, routine_id |-> routine_id] \in assoc}

RoutineResponse(r, assoc, workout_rows) ==
    [id |-> r.id, user_id |-> r.user_id, name |-> r.name, description |-> r.description,
     workouts |-> {WorkoutSummary(w) : w \in loaded_workouts(r.id, assoc, workout_rows)}]

\* GET /routines/
get_routines(bearer) ==
    LET user == get_current_user(bearer) IN
    IF user.status = 401 THEN Rejected("get_routines", bearer, user)
    ELSE /\ resp' = Response("get_routines", bearer, Identity(user), 200, NoArgs,
                       {RoutineResponse(r, workout_routine, workouts) :
                           r \in {x \in routines : x.user_id = user.id}})
         /\ UNCHANGED <<environ, clock, users, workouts, routines, workout_routine,
                        issued, reqs>>

\* the loop checking that the workout exists, not whose it is
missing_positions_any_owner(workout_ids, user_id) ==
    {i \in 1..Len(workout_ids) : \A w \in workouts : w.id # workout_ids[i]}

\* the for loop of create_routine: positions whose lookup finds no owned workout
missing_positions(workout_ids, user_id) ==
    {i \in 1..Len(workout_ids) : owned_workout(workout_ids[i], user_id) = {}}

first_missing(workout_ids, user_id) ==
    LET miss == missing_positions(workout_ids, user_id) IN
    workout_ids[CHOOSE i \in miss : \A j \in miss : i <= j]

\* db_routine.workouts after the loop: a list, one entry per id given
appended(workout_ids) == [i \in 1..Len(workout_ids) |-> workout_ids[i]]

\* the flush inserts one association row per list entry; the table's primary
\* key (workout_id, routine_id) rejects the second of two equal rows
violates_primary_key(entries) ==
    \E i, j \in 1..Len(entries) : i # j /\ entries[i] = entries[j]

\* POST /routines/
create_routine(bearer, name, description, workout_ids) ==
    LET user == get_current_user(bearer)
        args == [name |-> name, workouts |-> workout_ids] IN
    IF user.status = 401 THEN Rejected("create_routine", bearer, user)
    ELSE IF missing_positions(workout_ids, user.id) # {}
    THEN /\ resp' = HTTPException("create_routine", bearer, Identity(user), args, 404,
                        <<"Workout with ID", first_missing(workout_ids, user.id),
                          "not found or you don't have access to it">>, {})
         /\ UNCHANGED <<environ, clock, users, workouts, routines, workout_routine,
                        issued, reqs>>
    ELSE IF violates_primary_key(appended(workout_ids))
    THEN /\ resp' = HTTPException("create_routine", bearer, Identity(user), args, 400,
                        <<"Failed to create routine:", "IntegrityError">>, {})
         /\ UNCHANGED <<environ, clock, users, workouts, routines, workout_routine,
                        issued, reqs>>
    ELSE LET db_routine == [id |-> NextId(routines), user_id |-> user.id,
                            name |-> name, description |-> description]
             rows == {[workout_id |-> workout_ids[i], routine_id |-> db_routine.id] :
                         i \in 1..Len(workout_ids)} IN
         /\ db_routine.id <= MaxRoutines
         /\ Cardinality(workouts) + Cardinality(routines) < MaxRows
         /\ routines' = routines \cup {db_routine}
         /\ workout_routine' = workout_routine \cup rows
         /\ resp' = Response("create_routine", bearer, Identity(user), 201, args,
                             RoutineResponse(db_routine, workout_routine', workouts))
         /\ UNCHANGED <<environ, clock, users, workouts, issued, reqs>>

\* the lookup without the owner filter
any_routine(routine_id, user_id) == {r \in routines : r.id = routine_id}

\* db.query(Routine).filter(Routine.id == id, Routine.user_id == user_id).first()
owned_routine(routine_id, user_id) ==
    {r \in routines : r.id = routine_id /\ r.user_id = user_id}

\* a delete that empties the association table
every_secondary_row(routine_id) == workout_routine

\* Routine.workouts (secondary=workout_routine): deleting a Routine deletes
\* its rows of the association table in the same flush
secondary_rows_of_routine(routine_id) ==
    {m \in workout_routine : m.routine_id = routine_id}

\* DELETE /routines/?routine_id=
delete_routine(bearer, routine_id) ==
    LET user == get_current_user(bearer) IN
    IF user.status = 401 THEN Rejected("delete_routine", bearer, user)
    ELSE LET db_routine == owned_routine(routine_id, user.id) IN
         IF db_routine = {}
         THEN /\ resp' = HTTPException("delete_routine", bearer, Identity(user), [id |-> routine_id], 404,
                           "Routine not found or you don't have permission to delete it", {})
              /\ UNCHANGED <<environ, clock, users, workouts, routines, workout_routine,
                             issued, reqs>>
         ELSE /\ routines' = routines \ db_routine
              /\ workout_routine' = workout_routine \ secondary_rows_of_routine(routine_id)
              /\ resp' = Response("delete_routine", bearer, Identity(user), 200,
                                  [id |-> routine_id,
                                   unlinked |-> {m.workout_id :
                                                   m \in secondary_rows_of_routine(routine_id)}],
                                  [message |-> "Routine deleted successfully"])
              /\ UNCHANGED <<environ, clock, users, workouts, issued, reqs>>

----------------------------------------------------------------------------
(* Requests' bearer tokens: the tokens the logins issued, and the ways a   *)
(* bearer can be bad.                                                      *)

BadBearers ==
    { NoBearer,
      MalformedBearer,
      \* signed by someone who does not hold the key
      jwt_encode([sub |-> "alice", id |-> 1, exp |-> clock + TOKEN_MINUTES], "not-the-key"),
      \* issued 30 minutes ago
      jwt_encode([sub |-> "alice", id |-> 1, exp |-> clock - 10], SECRET_KEY_deps),
      \* well signed, a required claim absent
      jwt_encode([id |-> 1, exp |-> clock + TOKEN_MINUTES], SECRET_KEY_deps),
      jwt_encode([sub |-> "alice", exp |-> clock + TOKEN_MINUTES], SECRET_KEY_deps) }

Bearers == issued \cup BadBearers

WorkoutIds == 1..MaxWorkouts
RoutineIds == 1..MaxRoutines
\* request lists of up to two ids, repeats included
WorkoutIdLists ==
    {<<>>} \cup {<<i>> : i \in WorkoutIds} \cup {<<i, j>> : i \in WorkoutIds, j \in WorkoutIds}

\* A rejected request's answer does not depend on its arguments: one
\* argument stands for all of them.
Args(bearer, S) ==
    IF get_current_user(bearer).status = 401 THEN {CHOOSE x \in S : TRUE} ELSE S

ProtectedOps == {"get_workout", "get_workouts", "create_workout", "delete_workout",
                 "get_routines", "create_routine", "delete_routine"}

----------------------------------------------------------------------------
(* SpecAuth: registration, login, time and the gate *)

Environments == {<<>>, [AUTH_SECRET_KEY |-> "s3cr3t"]}

InitAuth ==
    /\ environ \in Environments
    /\ clock = 0
    /\ users = {}
    /\ workouts = {}
    /\ routines = {}
    /\ workout_routine = {}
    /\ issued = {}
    /\ resp = NoResp
    /\ reqs = <<>>

Tick ==
    /\ \E d \in TickSteps :
          /\ clock + d <= MaxClock
          /\ clock' = clock + d
    /\ resp' = NoResp
    /\ UNCHANGED <<environ, users, workouts, routines, workout_routine, issued, reqs>>

Register == \E u \in Usernames, p \in Passwords, s \in Salts : create_user(u, p, s)

LoginForm == \E u \in Usernames, p \in Passwords : login_for_access_token(u, p)

LoginJson == \E u \in Usernames, p \in Passwords : login_with_json(u, p)

ListWorkouts(B) == \E b \in B : get_workouts(b)

NextAuth == Register \/ LoginForm \/ LoginJson \/ Tick \/ ListWorkouts(issued)

SpecAuth == InitAuth /\ [][NextAuth]_vars

----------------------------------------------------------------------------
(* Spec: the protected handlers, from a store where alice and bob have    *)
(* registered and logged in (a state SpecAuth reaches, 30 minutes in).     *)

Init ==
    /\ environ = [AUTH_SECRET_KEY |-> "s3cr3t"]
    /\ clock = 30
    /\ users = {[id |-> 1, username |-> "alice",
                 hashed_password |-> bcrypt_hash("pw123", "salt-a")],
                [id |-> 2, username |-> "bob",
                 hashed_password |-> bcrypt_hash("hunter2", "salt-b")]}
    /\ workouts = {}
    /\ routines = {}
    /\ workout_routine = {}
    /\ issued = {create_access_token(u.username, u.id, TOKEN_MINUTES) : u \in users}
    /\ resp = NoResp
    /\ reqs = <<>>

GetWorkout(B) == \E b \in B : \E i \in Args(b, WorkoutIds) : get_workout(b, i)

CreateWorkout(B) == \E b \in B, n \in WorkoutNames : create_workout(b, n, None)

DeleteWorkout(B) == \E b \in B : \E i \in Args(b, WorkoutIds) : delete_workout(b, i)

ListRoutines(B) == \E b \in B : get_routines(b)

CreateRoutine(B) ==
    \E b \in B, n \in RoutineNames : \E ids \in Args(b, WorkoutIdLists) :
        create_routine(b, n, None, ids)

DeleteRoutine(B) == \E b \in B : \E i \in Args(b, RoutineIds) : delete_routine(b, i)

\* every request carries a token a login issued
Next ==
    \/ GetWorkout(issued)
    \/ ListWorkouts(issued)
    \/ CreateWorkout(issued)
    \/ DeleteWorkout(issued)
    \/ ListRoutines(issued)
    \/ CreateRoutine(issued)
    \/ DeleteRoutine(issued)

Spec == Init /\ [][Next]_vars

----------------------------------------------------------------------------
(* SpecGate: every protected endpoint called with every kind of bad        *)
(* bearer, while requests with issued tokens fill the store.               *)

NextGate ==
    \/ GetWorkout(BadBearers)
    \/ ListWorkouts(BadBearers)
    \/ CreateWorkout(Bearers)
    \/ DeleteWorkout(BadBearers)
    \/ ListRoutines(BadBearers)
    \/ CreateRoutine(Bearers)
    \/ DeleteRoutine(BadBearers)

SpecGate == Init /\ [][NextGate]_vars

----------------------------------------------------------------------------
(* SpecConc: register requests running concurrently.  A request reads     *)
(* (the existence query) and later writes (INSERT and COMMIT, which the    *)
(* store serialises); other requests may run in between.                   *)

MaxRequests == 2

Slots == 1..MaxRequests

Idle == [pc |-> "idle"]

InitConc ==
    /\ environ = [AUTH_SECRET_KEY |-> "s3cr3t"]
    /\ clock = 0
    /\ users = {}
    /\ workouts = {}
    /\ routines = {}
    /\ workout_routine = {}
    /\ issued = {}
    /\ resp = NoResp
    /\ reqs = [r \in Slots |-> Idle]

\* create_user up to the existence check
register_query(r, username, password, salt) ==
    /\ reqs[r].pc = "idle"
    /\ reqs' = [reqs EXCEPT ![r] =
                  IF user_by_username(username) # {}
                  THEN [pc |-> "done", username |-> username,
                        resp |-> UsernameTaken(username)]
                  ELSE [pc |-> "checked", username |-> username,
                        password |-> password, salt |-> salt]]
    /\ UNCHANGED <<environ, clock, users, workouts, routines, workout_routine,
                   issued, resp>>

\* the response to an exception no handler catches
InternalServerError(op, args) ==
    HTTPException(op, NoBearer, Anonymous, args, 500, "Internal Server Error", {})

\* the commit on a users table without the unique index
register_commit_unindexed(r) ==
    LET q == reqs[r]
        row == NewUser(q.username, q.password, q.salt) IN
    /\ q.pc = "checked"
    /\ users' = users \cup {row}
    /\ reqs' = [reqs EXCEPT ![r] =
                  [pc |-> "done", username |-> q.username,
                   resp |-> Response("register", NoBearer, Anonymous, 201,
                                     [username |-> q.username], UserResponse(row))]]
    /\ UNCHANGED <<environ, clock, workouts, routines, workout_routine, issued, resp>>

\* db.add, db.commit, db.refresh and the return.  The unique index on
\* users.username makes the INSERT raise IntegrityError when the name was
\* taken since the check; create_user has no except clause.
register_commit(r) ==
    LET q == reqs[r] IN
    /\ q.pc = "checked"
    /\ IF user_by_username(q.username) # {}
       THEN /\ users' = users
            /\ reqs' = [reqs EXCEPT ![r] =
                          [pc |-> "done", username |-> q.username,
                           resp |-> InternalServerError("register",
                                                        [username |-> q.username])]]
       ELSE LET row == NewUser(q.username, q.password, q.salt) IN
            /\ users' = users \cup {row}
            /\ reqs' = [reqs EXCEPT ![r] =
                          [pc |-> "done", username |-> q.username,
                           resp |-> Response("register", NoBearer, Anonymous, 201,
                                             [username |-> q.username], UserResponse(row))]]
    /\ UNCHANGED <<environ, clock, workouts, routines, workout_routine, issued, resp>>

RegisterQuery ==
    \E r \in Slots, u \in Usernames, p \in Passwords, s \in Salts :
        register_query(r, u, p, s)

RegisterCommit == \E r \in Slots : register_commit(r)

NextConc == RegisterQuery \/ RegisterCommit

SpecConc == InitConc /\ [][NextConc]_vars

----------------------------------------------------------------------------
(* SpecSession: the store session of each request.  get_db opens a        *)
(* session before the handler runs and closes it in its finally clause     *)
(* when the request is over, however it ended.  Register requests          *)
(* interleave as in SpecConc (their session opens with the existence       *)
(* query's step); protected requests are served one at a time.             *)

InitSession ==
    /\ environ = [AUTH_SECRET_KEY |-> "s3cr3t"]
    /\ clock = 0
    /\ users = {[id |-> 1, username |-> "alice",
                 hashed_password |-> bcrypt_hash("pw123", "salt-a")]}
    /\ workouts = {}
    /\ routines = {}
    /\ workout_routine = {}
    /\ issued = {create_access_token(u.username, u.id, TOKEN_MINUTES) : u \in users}
    /\ resp = NoResp
    /\ reqs = [r \in Slots |-> Idle]

\* db = SessionLocal(); yield db: a protected request gets its session
get_db(r) ==
    /\ reqs[r].pc = "idle"
    /\ \A q \in Slots : reqs[q].pc # "open"
    /\ reqs' = [reqs EXCEPT ![r] = [pc |-> "open"]]
    /\ resp' = NoResp
    /\ UNCHANGED <<environ, clock, users, workouts, routines, workout_routine, issued>>

\* the gate and the handler of the request that holds the open session
Serve ==
    /\ \E r \in Slots : reqs[r].pc = "open"
    /\ resp = NoResp
    /\ \/ GetWorkout(Bearers)
       \/ CreateWorkout(Bearers)
       \/ DeleteWorkout(Bearers)

\* the request is over: the handler returned, or raised
Over(r) ==
    \/ reqs[r].pc = "done"
    \/ reqs[r].pc = "open" /\ resp # NoResp

Outcome(r) == IF reqs[r].pc = "done" THEN reqs[r].resp.status ELSE resp.status

\* a dependency that closes the session only after a normal return
get_db_no_finally(r) ==
    /\ Over(r)
    /\ Outcome(r) \in {200, 201}
    /\ reqs' = [reqs EXCEPT ![r] = [pc |-> "closed", status |-> Outcome(r)]]
    /\ UNCHANGED <<environ, clock, users, workouts, routines, workout_routine,
                   issued, resp>>

\* finally: db.close()
get_db_finally(r) ==
    /\ Over(r)
    /\ reqs' = [reqs EXCEPT ![r] = [pc |-> "closed", status |-> Outcome(r)]]
    /\ UNCHANGED <<environ, clock, users, workouts, routines, workout_routine,
                   issued, resp>>

OpenSession == \E r \in Slots : get_db(r)

CloseSession == \E r \in Slots : get_db_finally(r)

NextSession ==
    \/ RegisterQuery
    \/ RegisterCommit
    \/ OpenSession
    \/ Serve
    \/ CloseSession

\* a handler that has started runs to its end and the framework then unwinds
\* the request's dependencies
SpecSession ==
    /\ InitSession
    /\ [][NextSession]_vars
    /\ WF_vars(RegisterCommit)
    /\ WF_vars(Serve)
    /\ \A r \in Slots : WF_vars(get_db_finally(r))

----------------------------------------------------------------------------
(* SpecRace: create_routine and delete_workout requests running            *)
(* concurrently.  Each reads first (the SELECTs of its lookup, outside any  *)
(* write transaction) and writes later (the flush and COMMIT, which the     *)
(* store serialises); other requests may run in between.  Workouts are      *)
(* created by requests that run in one step.                                *)

InitRace ==
    /\ environ = [AUTH_SECRET_KEY |-> "s3cr3t"]
    /\ clock = 30
    /\ users = {[id |-> 1, username |-> "alice",
                 hashed_password |-> bcrypt_hash("pw123", "salt-a")],
                [id |-> 2, username |-> "bob",
                 hashed_password |-> bcrypt_hash("hunter2", "salt-b")]}
    /\ workouts = {}
    /\ routines = {}
    /\ workout_routine = {}
    /\ issued = {create_access_token(u.username, u.id, TOKEN_MINUTES) : u \in users}
    /\ resp = NoResp
    /\ reqs = [r \in Slots |-> Idle]

\* create_routine up to the end of its for loop: the ownership lookup of
\* each workout id
routine_lookup(r, bearer, name, description, workout_ids) ==
    LET user == get_current_user(bearer)
        args == [name |-> name, workouts |-> workout_ids] IN
    /\ reqs[r].pc = "idle"
    /\ user.status = 200
    /\ reqs' = [reqs EXCEPT ![r] =
                  IF missing_positions(workout_ids, user.id) # {}
                  THEN [pc |-> "done",
                        resp |-> HTTPException("create_routine", bearer, Identity(user), args,
                                     404, <<"Workout with ID", first_missing(workout_ids, user.id),
                                            "not found or you don't have access to it">>, {})]
                  ELSE [pc |-> "looked", bearer |-> bearer, user |-> Identity(user),
                        name |-> name, description |-> description,
                        workouts |-> workout_ids]]
    /\ UNCHANGED <<environ, clock, users, workouts, routines, workout_routine,
                   issued, resp>>

\* db.add, db.commit, db.refresh and the reload.  The INSERTs into
\* workout_routine are not checked against the workouts table: the engine
\* is SQLite, created without PRAGMA foreign_keys=ON.
routine_commit(r) ==
    LET q == reqs[r]
        args == [name |-> q.name, workouts |-> q.workouts]
        db_routine == [id |-> NextId(routines), user_id |-> q.user.id,
                       name |-> q.name, description |-> q.description]
        rows == {[workout_id |-> q.workouts[i], routine_id |-> db_routine.id] :
                    i \in 1..Len(q.workouts)} IN
    /\ q.pc = "looked"
    /\ IF violates_primary_key(appended(q.workouts))
       THEN /\ reqs' = [reqs EXCEPT ![r] =
                          [pc |-> "done",
                           resp |-> HTTPException("create_routine", q.bearer, q.user, args, 400,
                                        <<"Failed to create routine:", "IntegrityError">>, {})]]
            /\ UNCHANGED <<routines, workout_routine>>
       ELSE /\ db_routine.id <= MaxRoutines
            /\ Cardinality(workouts) + Cardinality(routines) < MaxRows
            /\ routines' = routines \cup {db_routine}
            /\ workout_routine' = workout_routine \cup rows
            /\ reqs' = [reqs EXCEPT ![r] =
                          [pc |-> "done",
                           resp |-> Response("create_routine", q.bearer, q.user, 201, args,
                                        RoutineResponse(db_routine, workout_routine', workouts))]]
    /\ UNCHANGED <<environ, clock, users, workouts, issued, resp>>

\* delete_workout up to its ownership query
workout_lookup(r, bearer, workout_id) ==
    LET user == get_current_user(bearer) IN
    /\ reqs[r].pc = "idle"
    /\ user.status = 200
    /\ reqs' = [reqs EXCEPT ![r] =
                  IF owned_workout(workout_id, user.id) = {}
                  THEN [pc |-> "done",
                        resp |-> HTTPException("delete_workout", bearer, Identity(user),
                                     [id |-> workout_id], 404,
                                     "Workout not found or you don't have permission to delete it",
                                     {})]
                  ELSE [pc |-> "found", bearer |-> bearer, user |-> Identity(user),
                        id |-> workout_id]]
    /\ UNCHANGED <<environ, clock, users, workouts, routines, workout_routine,
                   issued, resp>>

\* db.delete(workout) and db.commit(): the row goes by its primary key,
\* its association rows with it
workout_commit(r) ==
    LET q == reqs[r] IN
    /\ q.pc = "found"
    /\ workouts' = {w \in workouts : w.id # q.id}
    /\ workout_routine' = workout_routine \ secondary_rows_of_workout(q.id)
    /\ reqs' = [reqs EXCEPT ![r] =
                  [pc |-> "done",
                   resp |-> Response("delete_workout", q.bearer, q.user, 200,
                                [id |-> q.id,
                                 unlinked |-> {m.routine_id :
                                                 m \in secondary_rows_of_workout(q.id)}],
                                [message |-> "Workout deleted successfully"])]]
    /\ UNCHANGED <<environ, clock, users, routines, issued, resp>>

RoutineLookup ==
    \E r \in Slots, b \in issued, n \in RoutineNames, ids \in WorkoutIdLists :
        routine_lookup(r, b, n, None, ids)

RoutineCommit == \E r \in Slots : routine_commit(r)

WorkoutLookup == \E r \in Slots, b \in issued, i \in WorkoutIds : workout_lookup(r, b, i)

WorkoutCommit == \E r \in Slots : workout_commit(r)

NextRace ==
    \/ CreateWorkout(issued)
    \/ RoutineLookup
    \/ RoutineCommit
    \/ WorkoutLookup
    \/ WorkoutCommit

SpecRace == InitRace /\ [][NextRace]_vars

----------------------------------------------------------------------------
(* SpecJourney: one client on an empty store going through the service,   *)
(* each request made once the one before it has succeeded: register, log   *)
(* in, create a workout with the token received, create a routine of that  *)
(* workout, delete the routine, read the workout.                          *)

\* the client starts at any time of day
JourneyWait == users = {} /\ Tick

JourneyRegister == users = {} /\ Register

\* the client logs in, on either endpoint, with the password it registered
JourneyLogin ==
    /\ resp.op = "register"
    /\ resp.status = 201
    /\ \E p \in Passwords :
          /\ authenticate_user(resp.body.username, p) # {}
          /\ \/ login_for_access_token(resp.body.username, p)
             \/ login_with_json(resp.body.username, p)

JourneyCreateWorkout ==
    /\ resp.op \in {"token", "login"}
    /\ resp.status = 200
    /\ \E n \in WorkoutNames : create_workout(resp.body.access_token, n, None)

JourneyCreateRoutine ==
    /\ resp.op = "create_workout"
    /\ resp.status = 201
    /\ \E n \in RoutineNames : create_routine(resp.bearer, n, None, <<resp.body.id>>)

JourneyDeleteRoutine ==
    /\ resp.op = "create_routine"
    /\ resp.status = 201
    /\ delete_routine(resp.bearer, resp.body.id)

\* the client reads the workout it created, by the id it was given
JourneyGetWorkout ==
    /\ resp.op = "delete_routine"
    /\ resp.status = 200
    /\ \E i \in resp.args.unlinked : get_workout(resp.bearer, i)

NextJourney ==
    \/ JourneyWait
    \/ JourneyRegister
    \/ JourneyLogin
    \/ JourneyCreateWorkout
    \/ JourneyCreateRoutine
    \/ JourneyDeleteRoutine
    \/ JourneyGetWorkout

SpecJourney == InitAuth /\ [][NextJourney]_vars

----------------------------------------------------------------------------
(* SpecLogin: one client sends the same username and password to the form *)
(* login and then to the JSON login, on whatever store the registrations   *)
(* before it have left.  Request bodies may carry empty strings.           *)

\* what a client may type: the names and passwords above, or nothing
LoginUsernames == Usernames \cup {""}
LoginPasswords == Passwords \cup {""}

\* the answer to a request whose body fails validation
RequestValidationError(op, args) ==
    HTTPException(op, NoBearer, Anonymous, args, 422, "Field required", {})

\* POST /auth/token as the framework serves it: the fields of
\* OAuth2PasswordRequestForm are required form fields, and a form field sent
\* empty counts as not sent; the handler runs only on a valid form
post_token(username, password) ==
    IF username = "" \/ password = ""
    THEN /\ resp' = RequestValidationError("token", [username |-> username])
         /\ UNCHANGED <<environ, clock, users, workouts, routines, workout_routine,
                        issued, reqs>>
    ELSE login_for_access_token(username, password)

\* POST /auth/login as the framework serves it: UserCreateRequest takes any
\* two strings
post_login(username, password) == login_with_json(username, password)

\* POST /auth/register takes the same body
RegisterAny ==
    /\ DOMAIN reqs = {}
    /\ \E u \in LoginUsernames, p \in LoginPasswords, s \in Salts : create_user(u, p, s)

\* the client settles on a username and a password
Ask ==
    /\ DOMAIN reqs = {}
    /\ \E u \in LoginUsernames, p \in LoginPasswords :
          reqs' = [username |-> u, password |-> p, form |-> NoResp]
    /\ resp' = NoResp
    /\ UNCHANGED <<environ, clock, users, workouts, routines, workout_routine, issued>>

Asked == "form" \in DOMAIN reqs

FormLogin ==
    /\ Asked
    /\ reqs.form = NoResp
    /\ resp = NoResp
    /\ post_token(reqs.username, reqs.password)

\* the client keeps the form login's answer
Keep ==
    /\ Asked
    /\ reqs.form = NoResp
    /\ resp.op = "token"
    /\ reqs' = [reqs EXCEPT !.form = resp]
    /\ resp' = NoResp
    /\ UNCHANGED <<environ, clock, users, workouts, routines, workout_routine, issued>>

JsonLogin ==
    /\ Asked
    /\ reqs.form # NoResp
    /\ resp = NoResp
    /\ post_login(reqs.username, reqs.password)

NextLogin == RegisterAny \/ Ask \/ FormLogin \/ Keep \/ JsonLogin

SpecLogin == InitAuth /\ [][NextLogin]_vars

----------------------------------------------------------------------------
(* Claims *)

EnvSet == "AUTH_SECRET_KEY" \in DOMAIN environ

\* the last request presented, through a protected endpoint, a token a login issued
PresentedIssued == resp.op \in ProtectedOps /\ resp.bearer \in issued

\* C1: a token issued by a login of a registered user A and presented to the
\* gate before its expiry is accepted and yields exactly {id: A.id, username:
\* A.username}, whether AUTH_SECRET_KEY is set in the environment or not.
C1_TokenRoundTrip ==
    (PresentedIssued /\ clock < resp.bearer.claims["exp"])
        => /\ resp.status = 200
           /\ \E a \in users : resp.user = [username |-> a.username, id |-> a.id]
           /\ resp.user = [username |-> resp.bearer.claims["sub"],
                           id |-> resp.bearer.claims["id"]]

\* C2: every token a login endpoint issues expires exactly 20 minutes after it
\* was issued, and at any later time the gate answers it with 401; the gate
\* reads nothing but the token and the clock, so nothing extends a lifetime.
C2_TokenExpiry ==
    /\ (resp.op \in {"token", "login"} /\ resp.status = 200)
          => resp.body.access_token.claims["exp"] = clock + 20
    /\ \A t \in issued :
          clock > t.claims["exp"] => get_current_user(t).status = 401
    /\ (PresentedIssued /\ clock > resp.bearer.claims["exp"]) => resp.status = 401

C2_Witness ==
    /\ EnvSet
    /\ PresentedIssued
    /\ clock > resp.bearer.claims["exp"]
    /\ resp.status = 401

\* C3: a request to any protected endpoint whose bearer is missing, malformed,
\* wrongly signed, expired or lacks the sub or id claim is answered 401 with
\* no identity, and the step leaves users, workouts, routines and memberships
\* as they were.
C3_GateRejects ==
    [][(resp'.op \in ProtectedOps /\ resp'.bearer \in BadBearers)
          => /\ resp'.status = 401
             /\ resp'.user = Anonymous
             /\ store' = store]_vars

C3_Witness ==
    /\ resp.op = "delete_workout"
    /\ resp.status = 401
    /\ resp.bearer.kind = "jwt"
    /\ "id" \notin DOMAIN resp.bearer.claims
    /\ workouts # {}

\* C4: a register call with a username nobody holds answers 201 with exactly
\* {id, username} of the row it added; one with a username already held
\* answers 400 "Username already registered" and leaves the users table,
\* stored hashes included, as it was.
C4_DuplicateRegistration ==
    [][resp'.op = "register"
          => IF \E u \in users : u.username = resp'.args.username
             THEN /\ resp'.status = 400
                  /\ resp'.detail = "Username already registered"
                  /\ users' = users
             ELSE /\ resp'.status = 201
                  /\ DOMAIN resp'.body = {"id", "username"}
                  /\ resp'.body.username = resp'.args.username
                  /\ \E row \in users' \ users :
                        /\ users' = users \cup {row}
                        /\ row.id = resp'.body.id
                        /\ row.username = resp'.body.username
                        /\ row.id \notin Ids(users)]_vars

C4_Witness ==
    /\ resp.op = "register"
    /\ resp.status = 400
    /\ \E u \in users : u.username = resp.args.username

Done(r) == reqs[r].pc = "done"

\* C5: of two register requests for the same unused username that run
\* concurrently, one answers 201 and the other 400.
C5_ConcurrentRegistration ==
    \A r1 \in Slots, r2 \in Slots :
        (r1 # r2 /\ Done(r1) /\ Done(r2) /\ reqs[r1].username = reqs[r2].username)
            => {reqs[r1].resp.status, reqs[r2].resp.status} = {201, 400}

\* C6: on each login endpoint a failed login, whether the username is
\* unknown or the password wrong, gets the same 401: same status, detail and
\* headers.
C6_LoginFailureShape ==
    (resp.op \in {"token", "login"} /\ resp.status # 200)
        => Visible(resp) =
              [status |-> 401, detail |-> "Incorrect username or password",
               headers |-> IF resp.op = "token" THEN {"WWW-Authenticate: Bearer"} ELSE {}]

C6_Witness ==
    /\ resp.op = "login"
    /\ resp.status = 401
    /\ \E u \in users : u.username = resp.args.username
    /\ \E n \in Usernames : \A u \in users : u.username # n

\* the caller of the last request does not own a workout (routine) with the id asked for
NotOwnersWorkout(r) == ~ \E w \in workouts : w.id = r.args.id /\ w.user_id = r.user.id

NotOwnersRoutine(r) == ~ \E x \in routines : x.id = r.args.id /\ x.user_id = r.user.id

C8_OwnerWorkoutDelete ==
    /\ [][(resp'.op = "delete_workout" /\ resp'.status # 401 /\ ~NotOwnersWorkout(resp'))
             => /\ resp'.status = 200
                /\ workouts' = {w \in workouts : w.id # resp'.args.id}
                /\ \A w \in workouts' : w.user_id = resp'.user.id => w.id # resp'.args.id
                /\ workout_routine' =
                      {m \in workout_routine : m.workout_id # resp'.args.id}
                /\ routines' = routines
                /\ users' = users]_vars
    /\ [](\A m \in workout_routine : m.workout_id \in Ids(workouts))

C8_Witness ==
    /\ resp.op = "delete_workout"
    /\ resp.status = 200
    /\ resp.args.unlinked # {}
    /\ resp.args.unlinked \subseteq Ids(routines)
    /\ \A w \in workouts : w.id # resp.args.id

\* positions of a request list naming no workout of the caller
Offending(ids, user_id) ==
    {i \in 1..Len(ids) : ~ \E w \in workouts : w.id = ids[i] /\ w.user_id = user_id}

C10_CreateRoutineRoundTrip ==
    (/\ resp.op = "create_routine"
     /\ resp.status # 401
     /\ Offending(resp.args.workouts, resp.user.id) = {})
        => LET given == {resp.args.workouts[i] : i \in 1..Len(resp.args.workouts)} IN
           /\ resp.status = 201
           /\ {w.id : w \in resp.body.workouts} = given
           /\ \E r \in routines :
                 /\ r.id = resp.body.id
                 /\ r.user_id = resp.user.id
                 /\ {m.workout_id : m \in secondary_rows_of_routine(r.id)} = given

\* C11: when its owner deletes a routine the call answers 200, the routine
\* row and all its membership rows go in the same step, the workouts table
\* (ids, owners, names, descriptions) is as before, so the owner's workout
\* list is the same, and the membership rows of other routines stay.
C11_RoutineDeleteFrame ==
    [][(resp'.op = "delete_routine" /\ resp'.status # 401 /\ ~NotOwnersRoutine(resp'))
          => /\ resp'.status = 200
             /\ routines' = {x \in routines : x.id # resp'.args.id}
             /\ \A m \in workout_routine' : m.routine_id # resp'.args.id
             /\ \A m \in workout_routine :
                   m.routine_id # resp'.args.id => m \in workout_routine'
             /\ workout_routine' \subseteq workout_routine
             /\ workouts' = workouts
             /\ {w \in workouts' : w.user_id = resp'.user.id}
                   = {w \in workouts : w.user_id = resp'.user.id}
             /\ users' = users]_vars

\* a routine with a member workout was deleted; the workout is there and is
\* still a member of another routine
C11_Witness ==
    /\ resp.op = "delete_routine"
    /\ resp.status = 200
    /\ resp.args.unlinked # {}
    /\ resp.args.unlinked \subseteq Ids(workouts)
    /\ \A x \in routines : x.id # resp.args.id
    /\ \E m \in workout_routine :
          m.workout_id \in resp.args.unlinked /\ m.routine_id \in Ids(routines)

\* C12: in every state the requests reach, one after another, each membership
\* row links a routine and a workout that exist and have the same owner.
C12_MembershipOwnership ==
    \A m \in workout_routine :
        \E r \in routines, w \in workouts :
            /\ r.id = m.routine_id
            /\ w.id = m.workout_id
            /\ r.user_id = w.user_id

\* a routine was created with a member while another user owned a workout
C12_Witness ==
    /\ resp.op = "create_routine"
    /\ resp.status = 201
    /\ resp.body.workouts # {}
    /\ \E m \in workout_routine : m.routine_id = resp.body.id
    /\ \E w \in workouts : w.user_id # resp.user.id

\* C13: for an authenticated caller GET /workouts/all returns exactly the
\* workouts the caller owns, and GET /routines/ exactly the routines the
\* caller owns, each with exactly its member workouts (id, name,
\* description): no row of another user, no owned row left out.
C13_OwnershipScopedListing ==
    /\ (resp.op = "get_workouts" /\ resp.status # 401)
          => /\ resp.status = 200
             /\ resp.body \subseteq workouts
             /\ \A w \in workouts : w \in resp.body <=> w.user_id = resp.user.id
    /\ (resp.op = "get_routines" /\ resp.status # 401)
          => /\ resp.status = 200
             /\ \A r \in routines :
                   r.user_id = resp.user.id <=> \E x \in resp.body : x.id = r.id
             /\ \A x \in resp.body :
                   /\ \E r \in routines :
                         /\ r.id = x.id /\ r.user_id = x.user_id
                         /\ r.name = x.name /\ r.description = x.description
                   /\ {y.id : y \in x.workouts}
                         = {m.workout_id : m \in {n \in workout_routine : n.routine_id = x.id}}
                   /\ \A y \in x.workouts :
                         \E w \in workouts :
                            /\ w.id = y.id /\ w.name = y.name
                            /\ w.description = y.description

\* the caller's routine is listed with its member while another user has a
\* routine too
C13_Witness ==
    /\ resp.op = "get_routines"
    /\ resp.status = 200
    /\ \E x \in resp.body : x.workouts # {}
    /\ \E r \in routines : r.user_id # resp.user.id

C15_PersistenceFailure ==
    [][/\ \A r \in DOMAIN reqs :
             (/\ reqs[r].pc = "checked"
              /\ reqs'[r].pc = "done"
              /\ \E u \in users : u.username = reqs[r].username)
                => /\ reqs'[r].resp.status = 400
                   /\ store' = store
       /\ (/\ resp'.op = "create_routine"
           /\ resp'.status # 401
           /\ Offending(resp'.args.workouts, resp'.user.id) = {}
           /\ violates_primary_key(resp'.args.workouts))
             => /\ resp'.status = 400
                /\ store' = store]_vars

\* C16: on a store without the user, register, login, create a workout with
\* the token returned, create a routine of that workout, delete the routine
\* and get the workout by id each succeed (201, 200 with a token, 201 with
\* an id, 201 listing the workout, 200, 200), and the workout is there at
\* the end.
C16_EndToEnd ==
    /\ resp.op = "register" => resp.status = 201
    /\ resp.op \in {"token", "login"}
          => /\ resp.status = 200
             /\ resp.body.access_token \in issued
    /\ resp.op = "create_workout"
          => /\ resp.status = 201
             /\ resp.body.id \in Ids(workouts)
    /\ resp.op = "create_routine"
          => /\ resp.status = 201
             /\ {y.id : y \in resp.body.workouts} = Ids(workouts)
    /\ resp.op = "delete_routine"
          => /\ resp.status = 200
             /\ resp.args.unlinked = Ids(workouts)
             /\ workouts # {}
    /\ resp.op = "get_workout"
          => /\ resp.status = 200
             /\ resp.body \in workouts
             /\ routines = {}

\* C17: in every state, under any order and interleaving of register
\* requests, no two user records share a username and no two share an id.
C17_UsernameUniqueness ==
    \A u1 \in users, u2 \in users :
        (u1.username = u2.username \/ u1.id = u2.id) => u1 = u2

\* two requests for one username both passed the existence check; one
\* committed and the other met the unique index
C17_Witness ==
    \E r1 \in DOMAIN reqs, r2 \in DOMAIN reqs :
        /\ r1 # r2
        /\ Done(r1) /\ Done(r2)
        /\ reqs[r1].username = reqs[r2].username
        /\ reqs[r1].resp.status = 201
        /\ reqs[r2].resp.status = 500
        /\ Cardinality({u \in users : u.username = reqs[r1].username}) = 1

\* the request in slot r holds a session
SessionOpen(r) == reqs[r].pc \in {"checked", "done", "open"}

SessionClosed(r) == reqs[r].pc = "closed"

\* C18: every request that got a session from get_db gives it back in the
\* end, whether its handler returned, raised an HTTPException (401, 404,
\* 400) or failed with an exception nobody caught; a request whose session
\* is closed does nothing more, and a handler acts only while its request
\* holds the session.
C18_SessionLifecycle ==
    /\ \A r \in Slots : SessionOpen(r) ~> SessionClosed(r)
    /\ [][\A r \in Slots : SessionClosed(r) => reqs'[r] = reqs[r]]_vars
    /\ [][(resp' # resp /\ resp' # NoResp) => \E r \in Slots : reqs[r].pc = "open"]_vars
    /\ [][users' # users => \E r \in Slots : reqs[r].pc = "checked"]_vars

\* sessions were closed after an uncaught exception and after a rejection
\* by the gate
C18_Witness ==
    /\ \E r \in Slots : SessionClosed(r) /\ reqs[r].status \in {401, 404}
    /\ \E r \in Slots : SessionClosed(r) /\ reqs[r].status \in {201, 500}

\* C19: in every state, whatever the interleaving of a create_routine
\* request (the ownership lookups, then the insert and commit) with a
\* delete_workout request on one of its workouts, every membership row
\* references a workout row and a routine row that exist.
C19_NoDanglingMembership ==
    \A m \in workout_routine :
        /\ m.workout_id \in Ids(workouts)
        /\ m.routine_id \in Ids(routines)

\* what user u owns: workouts, routines, and the membership rows of those routines
OwnedBy(u) ==
    << {w \in workouts : w.user_id = u},
       {r \in routines : r.user_id = u},
       {m \in workout_routine :
           \E r \in routines : r.id = m.routine_id /\ r.user_id = u} >>

\* what u's two list requests return
Listing(u) ==
    << {w \in workouts : w.user_id = u},
       {[routine |-> r,
         workouts |-> {WorkoutSummary(w) :
                          w \in {x \in workouts :
                                    [workout_id |-> x.id, routine_id |-> r.id]
                                        \in workout_routine}}] :
           r \in {x \in routines : x.user_id = u}} >>

\* C20: a request by user A (create or delete workout, create or delete
\* routine, with any ids) leaves the workouts, routines and membership rows
\* of every other user B as they were, and what B's list requests return
\* is the same after it as before.
C20_CrossUserIsolation ==
    [][\A b \in users :
          (/\ resp'.op \in ProtectedOps
           /\ resp'.status # 401
           /\ resp'.user.id # b.id)
             => /\ OwnedBy(b.id)' = OwnedBy(b.id)
                /\ Listing(b.id)' = Listing(b.id)]_vars

\* a user deleted a routine of theirs while another user had a routine with a member
C20_Witness ==
    /\ resp.op = "delete_routine"
    /\ resp.status = 200
    /\ \E r \in routines :
          /\ r.user_id # resp.user.id
          /\ \E m \in workout_routine : m.routine_id = r.id

\* both logins have answered the same username and password
BothAnswered == Asked /\ reqs.form # NoResp /\ resp.op = "login"

\* C21: on every store and for every username and password, the form login
\* and the JSON login agree: both answer 200 or both answer 401; on 200
\* both give token_type "bearer" and a token with the same claims (sub the
\* username, id the user's id, expiry 20 minutes on); and no login step
\* changes the store.
C21_LoginEquivalence ==
    /\ [](BothAnswered
            => /\ reqs.form.status \in {200, 401}
               /\ resp.status = reqs.form.status
               /\ resp.status = 200
                     => /\ resp.body.token_type = "bearer"
                        /\ reqs.form.body.token_type = "bearer"
                        /\ resp.body.access_token.claims
                              = reqs.form.body.access_token.claims
                        /\ \E u \in users :
                              resp.body.access_token.claims
                                 = [sub |-> u.username, id |-> u.id, exp |-> clock + 20]
                        /\ resp.body.access_token.claims["sub"] = reqs.username)
    /\ [][resp'.op \in {"token", "login"} => store' = store]_vars

====
